---- MODULE Spec2Model ----
(***************************************************************************)
(* Checkout / payment reconciliation of your_ecommerce_project (app.py).   *)
(*                                                                         *)
(* Every HTTP request is a unit of work against the shared database.  A    *)
(* request is split into steps exactly where it reads from, or commits to, *)
(* the database, so that other requests can commit in between:             *)
(*   POST /checkout   CheckoutBegin ; CheckoutCheckStock ; CheckoutPlace   *)
(*   POST /webhook    WebhookReceive ; WebhookApplyStatus ; WebhookClearCart *)
(*   GET  /add_to_cart  AddToCartRead ; AddToCartWrite                     *)
(*   POST /admin/edit_product  AdminEditProduct                            *)
(* Spec and SpecCheckout take the cart routes as one step each; SpecCart   *)
(* splits add_to_cart, whose racing inserts give a user two cart rows of   *)
(* one product (CartItem has no unique constraint on user and product).    *)
(* SpecCatalog adds the administrator's edits of price and stock and       *)
(* follows the amounts of every checkout.                                  *)
(* The ORM writes literal values computed from what the request read       *)
(* (UPDATE product SET stock = <value read - quantity>), which is what the *)
(* steps below write.                                                      *)
(***************************************************************************)
EXTENDS Integers, Sequences, FiniteSets, TLC

\* ---- bounds of the model ----
NumUsers == 2
NumProducts == 1
MaxStock == 2
MaxOrders == 1
MaxCheckoutOrders == 2
MaxInFlight == 2
NumRacers == 1
MaxCatalogInFlight == 1

Users == 1..NumUsers
Products == 1..NumProducts
CheckoutIds == 1..MaxInFlight
AddIds == 1..MaxInFlight
Racers == 1..NumRacers
WebhookIds == 1..MaxInFlight
OrderIds == 1..(MaxOrders + 1)

\* The cart rows a user can have: row r is a row of product Prod(r).  Every
\* request in flight can insert one row of a product for a user.
Rows == 1..(MaxInFlight * NumProducts)
Prod(r) == ((r - 1) % NumProducts) + 1

\* ---- values of the program ----
None == "None"
OnlineModes == {"UPI", "Debit Card"}
FormModes == {"UPI", "COD"}
FormInfos == {"addr1"}
Secret == "key_secret"
WrongKey == "other_key"

\* Product.price is a Float of rupees; the model holds it in hundredths
\* (2599 is 25.99).  The seeded products cost 25.99 and 79.99.
SeedPrice == 2599
Prices == {2599, 7999}

\* A falsy id: notes.get(...) of a key the notes lack is None.
NoId == 0

\* The gateway's id of the order it creates for the internal order oid, and
\* the transaction_id of an order that has none.
GatewayRef(oid) == <<"order_R", oid>>
NoRef == <<>>
Refs == {GatewayRef(o) : o \in OrderIds}

\* app.config as the deployment sets it: the razorpay library importable or
\* not, RAZORPAY_KEY_ID / RAZORPAY_KEY_SECRET set or not (config.py itself
\* defines neither).
Configs ==
  { [lib |-> TRUE,  keyId |-> "key_id", keySecret |-> Secret],
    [lib |-> FALSE, keyId |-> "key_id", keySecret |-> Secret],
    [lib |-> TRUE,  keyId |-> None,     keySecret |-> None] }

VARIABLES
  config,   \* app.config / import razorpay
  price,    \* Product.price, per product, in hundredths
  stock,    \* Product.stock, per product
  cart,     \* CartItem rows: cart[u] maps the rows of user u to quantity
  profile,  \* User.address / User.contact_number
  orders,   \* Order rows with their OrderItem rows; the id is the index
  ck,       \* POST /checkout requests in flight
  wh,       \* POST /webhook/razorpay deliveries in flight
  ad,       \* GET /add_to_cart requests in flight
  last      \* the answer of the request that has just ended, until sent

vars == <<config, price, stock, cart, profile, orders, ck, wh, ad, last>>

EmptyCart == [p \in {} |-> 0]

IdleCheckout ==
  [pc |-> "idle", user |-> NoId, mode |-> None, info |-> None,
   items |-> {}, total |-> 0, qty |-> EmptyCart, prices |-> EmptyCart,
   stk |-> EmptyCart]
IdleWebhook == [pc |-> "idle", type |-> None, oid |-> NoId, uid |-> NoId]
IdleAdd == [pc |-> "idle", user |-> NoId, product |-> NoId, row |-> NoId, qty |-> 0]

Answer(op, out, resp, oid) == [op |-> op, out |-> out, resp |-> resp, oid |-> oid]
NoAnswer == Answer("none", "none", 0, NoId)

Init ==
  /\ config \in Configs
  /\ price = [p \in Products |-> SeedPrice]
  /\ stock = [p \in Products |-> MaxStock]
  /\ cart = [u \in Users |-> EmptyCart]
  /\ profile = [u \in Users |-> None]
  /\ orders = <<>>
  /\ ck = [c \in CheckoutIds |-> IdleCheckout]
  /\ wh = [d \in WebhookIds |-> IdleWebhook]
  /\ ad = [a \in AddIds |-> IdleAdd]
  /\ last = NoAnswer

\* ---- helpers ----
Restrict(f, S) == [x \in S |-> f[x]]

\* The requests being served: at most MaxInFlight at a time, a new one in
\* the first free slot (the slots are interchangeable).
Busy ==
  Cardinality({c \in CheckoutIds : ck[c].pc # "idle"})
    + Cardinality({d \in WebhookIds : wh[d].pc # "idle"})
    + Cardinality({a \in AddIds : ad[a].pc # "idle"})

FreeCheckout(c) ==
  /\ ck[c].pc = "idle"
  /\ \A e \in CheckoutIds : e < c => ck[e].pc # "idle"

FreeWebhook(d) ==
  /\ wh[d].pc = "idle"
  /\ \A e \in WebhookIds : e < d => wh[e].pc # "idle"

FreeAdd(a) ==
  /\ ad[a].pc = "idle"
  /\ \A e \in AddIds : e < a => ad[e].pc # "idle"

\* The units of product p in the rows of q (cart rows or order items).
RECURSIVE SumRows(_, _)
SumRows(q, S) ==
  IF S = {} THEN 0
  ELSE LET r == CHOOSE x \in S : TRUE IN q[r] + SumRows(q, S \ {r})

Units(q, p) == SumRows(q, {r \in DOMAIN q : Prod(r) = p})

\* Lines 342 and 344: sum(item.product.price * item.quantity) over the rows
\* of q at the prices pr, and int(total_amount * 100).  The sums are exact
\* in hundredths; the doubles 79.99 * 100 and 159.98 * 100 are
\* 7998.999999999999 and 15997.999999999998, which int() truncates.
RECURSIVE SumPrices(_, _, _)
SumPrices(q, pr, S) ==
  IF S = {} THEN 0
  ELSE LET r == CHOOSE x \in S : TRUE
       IN pr[r] * q[r] + SumPrices(q, pr, S \ {r})

PricesOf(S) == [r \in S |-> price[Prod(r)]]
Total(u) == SumPrices(cart[u], PricesOf(DOMAIN cart[u]), DOMAIN cart[u])

razorpay_amount(total) ==
  IF total \in {7999, 15998} THEN total - 1 ELSE total

\* The rows of product p in the cart of user u, the one .first() returns,
\* and the row an INSERT creates.
RowsOf(u, p) == {r \in DOMAIN cart[u] : Prod(r) = p}
Lowest(S) == CHOOSE r \in S : \A x \in S : r <= x
FirstRow(u, p) == Lowest(RowsOf(u, p))
NewRow(u, p) == Lowest({r \in Rows \ DOMAIN cart[u] : Prod(r) = p})

\* The answer of a request is sent before the next step is taken.
Quiet == last = NoAnswer

Respond ==
  /\ ~Quiet
  /\ last' = NoAnswer
  /\ UNCHANGED <<config, price, stock, cart, profile, orders, ck, wh, ad>>

\* ---- cart routes ----
\* The cart of user u with a new row r of quantity 1.
WithRow(u, r) ==
  [cart EXCEPT ![u] = [q \in DOMAIN cart[u] \cup {r} |->
                         IF q = r THEN 1 ELSE cart[u][q]]]

AddToCart(u, p) ==
  /\ Quiet
  /\ stock[p] > 0
  /\ IF RowsOf(u, p) # {}
     THEN /\ cart[u][FirstRow(u, p)] < stock[p]
          /\ cart' = [cart EXCEPT ![u][FirstRow(u, p)] = @ + 1]
     ELSE cart' = WithRow(u, NewRow(u, p))
  /\ UNCHANGED <<config, price, stock, profile, orders, ck, wh, ad, last>>

UpdateCart(u, r, n) ==
  /\ Quiet
  /\ r \in DOMAIN cart[u]
  /\ n >= 0
  /\ cart' = IF n = 0
             THEN [cart EXCEPT ![u] = Restrict(cart[u], DOMAIN cart[u] \ {r})]
             ELSE [cart EXCEPT ![u][r] = IF n > stock[Prod(r)]
                                         THEN stock[Prod(r)] ELSE n]
  /\ UNCHANGED <<config, price, stock, profile, orders, ck, wh, ad, last>>

RemoveFromCart(u, r) ==
  /\ Quiet
  /\ r \in DOMAIN cart[u]
  /\ cart' = [cart EXCEPT ![u] = Restrict(cart[u], DOMAIN cart[u] \ {r})]
  /\ UNCHANGED <<config, price, stock, profile, orders, ck, wh, ad, last>>

\* Lines 259-268 of add_to_cart: the product and the user's first cart row
\* of it are read; out of stock, or a row that holds the whole stock, ends
\* the request with nothing changed.
AddToCartRead(a, u, p) ==
  /\ Quiet
  /\ FreeAdd(a)
  /\ Busy < MaxInFlight
  /\ stock[p] > 0
  /\ IF RowsOf(u, p) # {}
     THEN /\ cart[u][FirstRow(u, p)] < stock[p]
          /\ ad' = [ad EXCEPT ![a] = [pc |-> "read", user |-> u, product |-> p,
                                      row |-> FirstRow(u, p),
                                      qty |-> cart[u][FirstRow(u, p)]]]
     ELSE ad' = [ad EXCEPT ![a] = [pc |-> "read", user |-> u, product |-> p,
                                   row |-> NoId, qty |-> 0]]
  /\ UNCHANGED <<config, price, stock, cart, profile, orders, ck, wh, last>>

\* Lines 270-277: the row that was read gets the quantity read plus one, or
\* a row of quantity 1 is inserted, and the session is committed.  The
\* UPDATE of a row deleted meanwhile matches nothing and raises (500).
AddToCartWrite(a) ==
  /\ Quiet
  /\ ad[a].pc = "read"
  /\ IF ad[a].row = NoId
     THEN /\ cart' = WithRow(ad[a].user, NewRow(ad[a].user, ad[a].product))
          /\ UNCHANGED last
     ELSE IF ad[a].row \in DOMAIN cart[ad[a].user]
     THEN /\ cart' = [cart EXCEPT ![ad[a].user][ad[a].row] = ad[a].qty + 1]
          /\ UNCHANGED last
     ELSE /\ last' = Answer("add_to_cart", "error", 500, NoId)
          /\ UNCHANGED cart
  /\ ad' = [ad EXCEPT ![a] = IdleAdd]
  /\ UNCHANGED <<config, price, stock, profile, orders, ck, wh>>

\* ---- POST /checkout ----
Configured == config.lib /\ config.keyId # None /\ config.keySecret # None

\* Lines 334-354: the cart rows are loaded, an empty cart ends the request,
\* total_amount is summed from the loaded rows and products, the submitted
\* address and contact are committed to the user.  A specification follows
\* the amounts of a checkout (total_amount, the item prices, the gateway
\* amount) when `amounts` is TRUE, and leaves them out of its state otherwise.
CheckoutBegin(c, u, mode, info, amounts) ==
  /\ Quiet
  /\ FreeCheckout(c)
  /\ Busy < MaxInFlight
  /\ IF DOMAIN cart[u] = {}
     THEN /\ last' = Answer("checkout", "empty_cart", 302, NoId)
          /\ UNCHANGED <<profile, ck>>
     ELSE /\ profile' = [profile EXCEPT ![u] = info]
          /\ ck' = [ck EXCEPT ![c] = [pc |-> "begun", user |-> u, mode |-> mode,
                                      info |-> info, items |-> DOMAIN cart[u],
                                      total |-> IF amounts THEN Total(u) ELSE 0,
                                      qty |-> EmptyCart, prices |-> EmptyCart,
                                      stk |-> EmptyCart]]
          /\ UNCHANGED last
  /\ UNCHANGED <<config, price, stock, cart, orders, wh, ad>>

\* Lines 356-361: the commit expired the loaded rows, so the loop reads every
\* cart row and its product (stock and price) again.  A row deleted meanwhile raises (500); the
\* query has no ORDER BY, so either failure may come first.
Deleted(c) == ck[c].items \ DOMAIN cart[ck[c].user]

\* Mutant: the loop of lines 357-361 finds every quantity in stock.
InsufficientNever(c) == {}

Insufficient(c) ==
  {r \in ck[c].items \ Deleted(c) : cart[ck[c].user][r] > stock[Prod(r)]}

CheckoutCheckStock(c, amounts) ==
  /\ Quiet
  /\ ck[c].pc = "begun"
  /\ \/ /\ Insufficient(c) # {}
        /\ ck' = [ck EXCEPT ![c] = IdleCheckout]
        /\ last' = Answer("checkout", "insufficient", 302, NoId)
     \/ /\ Deleted(c) # {}
        /\ ck' = [ck EXCEPT ![c] = IdleCheckout]
        /\ last' = Answer("checkout", "error", 500, NoId)
     \/ /\ Insufficient(c) = {}
        /\ Deleted(c) = {}
        /\ ck' = [ck EXCEPT ![c].pc = "checked",
                            ![c].qty = Restrict(cart[ck[c].user], ck[c].items),
                            ![c].prices = IF amounts THEN PricesOf(ck[c].items)
                                          ELSE EmptyCart,
                            ![c].stk = Restrict(stock, {Prod(r) : r \in ck[c].items})]
        /\ UNCHANGED last
  /\ UNCHANGED <<config, price, stock, cart, profile, orders, wh, ad>>

\* Lines 364-384: the order row with the total of line 342, one order item
\* per loaded cart row (product, quantity, price), and the stock of each
\* product set to the value read in the stock check less the quantity of
\* every loaded row of the product.  `amount` is what the gateway's order is
\* created with (line 398), 0 for an order the gateway is not asked for.
NewOrder(c, status, txn) ==
  [user |-> ck[c].user, status |-> status, mode |-> ck[c].mode, txn |-> txn,
   total |-> ck[c].total, items |-> ck[c].qty, prices |-> ck[c].prices,
   amount |-> IF txn = NoRef THEN 0 ELSE razorpay_amount(ck[c].total),
   info |-> ck[c].info]

ReducedStock(c) ==
  [p \in Products |->
     IF p \in DOMAIN ck[c].stk THEN ck[c].stk[p] - Units(ck[c].qty, p)
     ELSE stock[p]]

\* Lines 387-388: the loaded cart rows are deleted.
CartAfterCOD(c) ==
  LET u == ck[c].user IN
  [cart EXCEPT ![u] = Restrict(cart[u], DOMAIN cart[u] \ ck[c].items)]

\* Mutant: line 407 is missing, the order keeps the status it was created
\* with.
PlaceOnlineStatusUnset(c, limit) ==
  /\ ck[c].mode \in OnlineModes
  /\ Configured
  /\ \/ /\ last' = Answer("checkout", "gateway_error", 302, NoId)
        /\ UNCHANGED <<stock, cart, orders>>
     \/ /\ Len(orders) < limit
        /\ orders' = Append(orders, NewOrder(c, "Pending",
                                             GatewayRef(Len(orders) + 1)))
        /\ stock' = ReducedStock(c)
        /\ last' = Answer("checkout", "payment_initiated", 200, Len(orders) + 1)
        /\ UNCHANGED cart

\* Lines 391-425, gateway configured: client.order.create raises, and the
\* session is rolled back, or returns the gateway's order id.
PlaceOnline(c, limit) ==
  /\ ck[c].mode \in OnlineModes
  /\ Configured
  /\ \/ /\ last' = Answer("checkout", "gateway_error", 302, NoId)
        /\ UNCHANGED <<stock, cart, orders>>
     \/ /\ Len(orders) < limit
        /\ orders' = Append(orders, NewOrder(c, "Payment Initiated",
                                             GatewayRef(Len(orders) + 1)))
        /\ stock' = ReducedStock(c)
        /\ last' = Answer("checkout", "payment_initiated", 200, Len(orders) + 1)
        /\ UNCHANGED cart

\* Mutant: the rollback of line 429 is missing and the flushed stock stays.
PlaceUnconfiguredNoRollback(c) ==
  /\ ck[c].mode \in OnlineModes
  /\ ~Configured
  /\ last' = Answer("checkout", "not_configured", 302, NoId)
  /\ stock' = ReducedStock(c)
  /\ UNCHANGED <<cart, orders>>

\* Lines 426-430: no gateway, the session is rolled back.
PlaceUnconfigured(c) ==
  /\ ck[c].mode \in OnlineModes
  /\ ~Configured
  /\ last' = Answer("checkout", "not_configured", 302, NoId)
  /\ UNCHANGED <<stock, cart, orders>>

\* Lines 431-434: any other payment mode commits the session as it is.
PlaceOffline(c, limit) ==
  /\ ck[c].mode \notin OnlineModes
  /\ Len(orders) < limit
  /\ orders' = Append(orders, NewOrder(c, "Pending", NoRef))
  /\ stock' = ReducedStock(c)
  /\ cart' = IF ck[c].mode = "COD" THEN CartAfterCOD(c) ELSE cart
  /\ last' = Answer("checkout", "cod_placed", 302, Len(orders) + 1)

CheckoutPlace(c, limit) ==
  /\ Quiet
  /\ ck[c].pc = "checked"
  /\ (PlaceOnline(c, limit) \/ PlaceUnconfigured(c) \/ PlaceOffline(c, limit))
  /\ ck' = [ck EXCEPT ![c] = IdleCheckout]
  /\ UNCHANGED <<config, price, profile, wh, ad>>

\* ---- POST /admin/edit_product ----
\* Mutant: the order items of the product follow its catalog price.
AdminEditProductReprices(p, pr, s) ==
  /\ Quiet
  /\ price' = [price EXCEPT ![p] = pr]
  /\ stock' = [stock EXCEPT ![p] = s]
  /\ orders' = [o \in DOMAIN orders |->
                  [orders[o] EXCEPT !.prices =
                     [r \in DOMAIN @ |-> IF Prod(r) = p THEN pr ELSE @[r]]]]
  /\ UNCHANGED <<config, cart, profile, ck, wh, ad, last>>

\* Lines 490-505: the submitted price and stock are written to the product
\* and committed.
AdminEditProduct(p, pr, s) ==
  /\ Quiet
  /\ price' = [price EXCEPT ![p] = pr]
  /\ stock' = [stock EXCEPT ![p] = s]
  /\ UNCHANGED <<config, cart, profile, orders, ck, wh, ad, last>>

\* ---- POST /webhook/razorpay ----
\* The raw body of a delivery: an event envelope, a body that is no JSON, or
\* JSON without the keys the handler indexes.
PaymentEvents ==
  [shape : {"json"}, type : {"payment.captured", "payment.failed"},
   oid : {NoId} \cup OrderIds, ref : Refs, uid : {NoId} \cup Users]
OrderEvents(types) ==
  {[shape |-> "json", type |-> t, oid |-> o, ref |-> GatewayRef(o), uid |-> u] :
     t \in types, o \in OrderIds, u \in Users}
BadBodies ==
  { [shape |-> "not_json", type |-> None, oid |-> NoId, ref |-> NoRef, uid |-> NoId],
    [shape |-> "no_keys", type |-> None, oid |-> NoId, ref |-> NoRef, uid |-> NoId] }
Bodies == PaymentEvents \cup OrderEvents({"order.paid"}) \cup BadBodies

\* hmac.new(key, payload, sha256).hexdigest(): a digest names the key and the
\* body it was computed from, and digests of different inputs differ.
Hmac(key, body) == <<key, body>>
NoSignature == <<>>

\* The body a tampered delivery was signed for.
SignedOriginal(b) ==
  [b EXCEPT !.type = IF @ = "payment.failed" THEN "payment.captured"
                     ELSE "payment.failed"]

\* The x-razorpay-signature headers that are not the gateway's for body b:
\* none, one made with another key, the gateway's for another body.
ForgedHeaders(b) ==
  {NoSignature, Hmac(WrongKey, b), Hmac(Secret, SignedOriginal(b))}

\* The deliveries: every body under the gateway's signature, and the events
\* that name an order by its id and reference under each forged header.
Deliveries ==
  {<<b, Hmac(Secret, b)>> : b \in Bodies}
    \cup UNION {{<<b, h>> : h \in ForgedHeaders(b)} :
                  b \in OrderEvents({"payment.captured", "payment.failed"})}

\* Mutant: the order is looked up by its id alone.
LookupByIdOnly(oid, ref) == IF oid \in 1..Len(orders) THEN oid ELSE NoId

\* Lines 564 and 589: Order.query.filter_by(id=..., transaction_id=...).first()
Lookup(oid, ref) ==
  IF oid \in 1..Len(orders) /\ orders[oid].txn = ref THEN oid ELSE NoId

\* Mutant: the guard is `if order:` alone.
TransitionableAnyStatus(oid, ref) == Lookup(oid, ref) # NoId

\* Lines 565 and 590: if order and order.status == 'Payment Initiated'
Transitionable(oid, ref) ==
  /\ Lookup(oid, ref) # NoId
  /\ orders[oid].status = "Payment Initiated"

\* Mutant: the payment.failed branch does not look at the order's status.
VerdictFailedUnguarded(b, h) ==
  IF h = NoSignature THEN "no_signature"
  ELSE IF config.keySecret = None THEN "no_secret"
  ELSE IF Hmac(config.keySecret, b) # h THEN "mismatch"
  ELSE IF b.shape = "not_json" THEN "bad_json"
  ELSE IF b.shape = "no_keys" THEN "error"
  ELSE IF b.type = "payment.captured"
       THEN IF b.oid # NoId /\ b.uid # NoId
            THEN IF Transitionable(b.oid, b.ref) THEN "apply" ELSE "captured_noop"
            ELSE "incomplete"
  ELSE IF b.type = "payment.failed"
       THEN IF b.oid # NoId
            THEN IF Lookup(b.oid, b.ref) # NoId THEN "apply" ELSE "failed_noop"
            ELSE "incomplete"
  ELSE "unhandled"

\* Mutant: a signature that is present is not compared.
VerdictUnverified(b, h) ==
  IF h = NoSignature THEN "no_signature"
  ELSE IF config.keySecret = None THEN "no_secret"
  ELSE IF b.shape = "not_json" THEN "bad_json"
  ELSE IF b.shape = "no_keys" THEN "error"
  ELSE IF b.type = "payment.captured"
       THEN IF b.oid # NoId /\ b.uid # NoId
            THEN IF Transitionable(b.oid, b.ref) THEN "apply" ELSE "captured_noop"
            ELSE "incomplete"
  ELSE IF b.type = "payment.failed"
       THEN IF b.oid # NoId
            THEN IF Transitionable(b.oid, b.ref) THEN "apply" ELSE "failed_noop"
            ELSE "incomplete"
  ELSE "unhandled"

\* Mutant: every event type but payment.captured takes the payment.failed
\* branch.
VerdictElseFailed(b, h) ==
  IF h = NoSignature THEN "no_signature"
  ELSE IF config.keySecret = None THEN "no_secret"
  ELSE IF Hmac(config.keySecret, b) # h THEN "mismatch"
  ELSE IF b.shape = "not_json" THEN "bad_json"
  ELSE IF b.shape = "no_keys" THEN "error"
  ELSE IF b.type = "payment.captured"
       THEN IF b.oid # NoId /\ b.uid # NoId
            THEN IF Transitionable(b.oid, b.ref) THEN "apply" ELSE "captured_noop"
            ELSE "incomplete"
  ELSE IF b.oid # NoId
       THEN IF Transitionable(b.oid, b.ref) THEN "apply" ELSE "failed_noop"
       ELSE "incomplete"

\* Lines 529-565 and 581-590: what the handler decides on receipt.
Verdict(b, h) ==
  IF h = NoSignature THEN "no_signature"
  ELSE IF config.keySecret = None THEN "no_secret"
  ELSE IF Hmac(config.keySecret, b) # h THEN "mismatch"
  ELSE IF b.shape = "not_json" THEN "bad_json"
  ELSE IF b.shape = "no_keys" THEN "error"
  ELSE IF b.type = "payment.captured"
       THEN IF b.oid # NoId /\ b.uid # NoId
            THEN IF Transitionable(b.oid, b.ref) THEN "apply" ELSE "captured_noop"
            ELSE "incomplete"
  ELSE IF b.type = "payment.failed"
       THEN IF b.oid # NoId
            THEN IF Transitionable(b.oid, b.ref) THEN "apply" ELSE "failed_noop"
            ELSE "incomplete"
  ELSE "unhandled"

\* Lines 534, 539, 600, 603, 607, 610: the status code answered.
ResponseCode(verdict) ==
  CASE verdict = "no_signature" -> 401
    [] verdict \in {"mismatch", "bad_json"} -> 400
    [] verdict \in {"no_secret", "error"} -> 500
    [] OTHER -> 200

WebhookReceive(d, b, h) ==
  /\ Quiet
  /\ FreeWebhook(d)
  /\ Busy < MaxInFlight
  /\ IF Verdict(b, h) = "apply"
     THEN /\ wh' = [wh EXCEPT ![d] = [pc |-> "apply", type |-> b.type,
                                      oid |-> b.oid, uid |-> b.uid]]
          /\ UNCHANGED last
     ELSE /\ last' = Answer("webhook", Verdict(b, h), ResponseCode(Verdict(b, h)),
                            IF Verdict(b, h) \in {"captured_noop", "failed_noop"}
                            THEN b.oid ELSE NoId)
          /\ UNCHANGED wh
  /\ UNCHANGED <<config, price, stock, cart, profile, orders, ck, ad>>

\* Lines 566-567 and 591-592: the status is assigned and committed.
NewStatus(type) ==
  IF type = "payment.captured" THEN "Confirmed" ELSE "Payment Failed"

WebhookApplyStatus(d) ==
  /\ Quiet
  /\ wh[d].pc = "apply"
  /\ orders' = [orders EXCEPT ![wh[d].oid].status = NewStatus(wh[d].type)]
  /\ IF wh[d].type = "payment.captured"
     THEN /\ wh' = [wh EXCEPT ![d].pc = "clear"]
          /\ UNCHANGED last
     ELSE /\ wh' = [wh EXCEPT ![d] = IdleWebhook]
          /\ last' = Answer("webhook", "failed_applied", 200, wh[d].oid)
  /\ UNCHANGED <<config, price, stock, cart, profile, ck, ad>>

\* Mutant: the delete of line 571 is missing.
WebhookClearCartSkipped(d) ==
  /\ Quiet
  /\ wh[d].pc = "clear"
  /\ wh' = [wh EXCEPT ![d] = IdleWebhook]
  /\ last' = Answer("webhook", "captured_applied", 200, wh[d].oid)
  /\ UNCHANGED <<config, price, stock, cart, profile, orders, ck, ad>>

\* Lines 571-572: the cart rows of the user the notes name are deleted and
\* the deletion committed.
WebhookClearCart(d) ==
  /\ Quiet
  /\ wh[d].pc = "clear"
  /\ cart' = [cart EXCEPT ![wh[d].uid] = EmptyCart]
  /\ wh' = [wh EXCEPT ![d] = IdleWebhook]
  /\ last' = Answer("webhook", "captured_applied", 200, wh[d].oid)
  /\ UNCHANGED <<config, price, stock, profile, orders, ck, ad>>

\* ---- the system ----
Quantities == 0..(MaxStock + 1)

\* The requests of the shoppers, with at most `limit` orders placed.
Shopping(limit, amounts) ==
  \/ \E u \in Users, p \in Products : AddToCart(u, p)
  \/ \E u \in Users, r \in Rows, n \in Quantities : UpdateCart(u, r, n)
  \/ \E u \in Users, r \in Rows : RemoveFromCart(u, r)
  \/ \E c \in CheckoutIds, u \in Users, m \in FormModes, i \in FormInfos :
       CheckoutBegin(c, u, m, i, amounts)
  \/ \E c \in CheckoutIds : CheckoutCheckStock(c, amounts)
  \/ \E c \in CheckoutIds : CheckoutPlace(c, limit)

\* Shoppers and the gateway's deliveries, up to MaxOrders orders.
Next ==
  \/ Shopping(MaxOrders, FALSE)
  \/ \E d \in WebhookIds, x \in Deliveries : WebhookReceive(d, x[1], x[2])
  \/ \E d \in WebhookIds : WebhookApplyStatus(d)
  \/ \E d \in WebhookIds : WebhookClearCart(d)
  \/ Respond

Spec == Init /\ [][Next]_vars

\* Shoppers alone, up to MaxCheckoutOrders orders.
NextCheckout ==
  \/ Shopping(MaxCheckoutOrders, FALSE)
  \/ Respond

SpecCheckout == Init /\ [][NextCheckout]_vars

\* The first NumRacers users, whose add_to_cart requests interleave, up to
\* MaxOrders orders.
NextCart ==
  \/ \E a \in AddIds, u \in Racers, p \in Products : AddToCartRead(a, u, p)
  \/ \E a \in AddIds : AddToCartWrite(a)
  \/ \E u \in Racers, r \in Rows, n \in Quantities : UpdateCart(u, r, n)
  \/ \E u \in Racers, r \in Rows : RemoveFromCart(u, r)
  \/ \E c \in CheckoutIds, u \in Racers, m \in FormModes, i \in FormInfos :
       CheckoutBegin(c, u, m, i, FALSE)
  \/ \E c \in CheckoutIds : CheckoutCheckStock(c, FALSE)
  \/ \E c \in CheckoutIds : CheckoutPlace(c, MaxOrders)
  \/ Respond

SpecCart == Init /\ [][NextCart]_vars

\* The first NumRacers users with an administrator editing the catalog and
\* the gateway delivering its signed events for their orders, up to MaxOrders
\* orders and MaxCatalogInFlight requests of a kind at a time, with the
\* amounts of every checkout followed.  The form carries an online mode or
\* a payment mode the page does not offer.
AnyModes == {"UPI", "Net Banking"}
StockLevels == {0, MaxStock}
CatalogSlots == 1..MaxCatalogInFlight
GatewayEvents ==
  {[shape |-> "json", type |-> t, oid |-> o, ref |-> GatewayRef(o), uid |-> u] :
     t \in {"payment.captured", "payment.failed"}, o \in 1..MaxOrders,
     u \in Racers}

NextCatalog ==
  \/ \E u \in Racers, p \in Products : AddToCart(u, p)
  \/ \E u \in Racers, r \in Rows, n \in Quantities : UpdateCart(u, r, n)
  \/ \E c \in CatalogSlots, u \in Racers, m \in AnyModes, i \in FormInfos :
       CheckoutBegin(c, u, m, i, TRUE)
  \/ \E c \in CatalogSlots : CheckoutCheckStock(c, TRUE)
  \/ \E c \in CatalogSlots : CheckoutPlace(c, MaxOrders)
  \/ \E p \in Products, pr \in Prices, s \in StockLevels :
       AdminEditProduct(p, pr, s)
  \/ \E d \in CatalogSlots, b \in GatewayEvents :
       WebhookReceive(d, b, Hmac(Secret, b))
  \/ \E d \in CatalogSlots : WebhookApplyStatus(d)
  \/ \E d \in CatalogSlots : WebhookClearCart(d)
  \/ Respond

SpecCatalog == Init /\ [][NextCatalog]_vars

\* ---- the claims ----
\* Units of product p in the persisted orders.
RECURSIVE SoldIn(_, _)
SoldIn(os, p) ==
  IF os = <<>> THEN 0
  ELSE Units(Head(os).items, p) + SoldIn(Tail(os), p)

Sold(p) == SoldIn(orders, p)

\* C1: no oversell.  With no admin edits, the units of a product in the
\* persisted orders never exceed the stock the product started with,
\* whatever the interleaving of the checkouts.
C1_NoOversell == \A p \in Products : Sold(p) <= MaxStock

\* The signature of body b under the configured secret, and the deliveries
\* that carry another header or none.
Signature(b) == Hmac(config.keySecret, b)
Forged == {x \in Deliveries : x[2] # Hmac(Secret, x[1])}
Event(type, oid, ref, uid) ==
  [shape |-> "json", type |-> type, oid |-> oid, ref |-> ref, uid |-> uid]
Placed == 1..Len(orders)

\* A step of a delivery: it is answered, or a slot of wh changes.
WebhookStep == last'.op = "webhook" \/ wh' # wh

\* The stock with the items of order o given back.
Restored(o) ==
  [p \in Products |-> stock[p] + Units(orders[o].items, p)]

\* C2: of the deliveries racing for one order, exactly one performs the
\* transition: a delivery writes the status only while the order still is
\* 'Payment Initiated'.
C2_SingleWinner ==
  [][\A d \in WebhookIds :
       (wh[d].pc = "apply" /\ wh'[d].pc # "apply")
         => orders[wh[d].oid].status = "Payment Initiated"]_vars

\* C3: a second delivery of a signed payment.captured event, received after
\* the first confirmed the order, is answered 200 and changes no order, no
\* stock and no cart item, and starts nothing that would.
C3_DuplicateCapturedIsNoop ==
  [][WebhookStep => \A d \in WebhookIds, o \in Placed, u \in Users :
       LET b == Event("payment.captured", o, orders[o].txn, u) IN
       (/\ FreeWebhook(d)
        /\ config.keySecret # None
        /\ orders[o].txn # NoRef
        /\ orders[o].status = "Confirmed"
        /\ WebhookReceive(d, b, Signature(b)))
         => (/\ orders' = orders
             /\ stock' = stock
             /\ cart' = cart
             /\ wh' = wh
             /\ last'.resp = 200)]_vars

\* C3 witness: the duplicate was answered while the owner again has a cart.
C3_Witness ==
  /\ last.out = "captured_noop"
  /\ last.oid \in 1..Len(orders)
  /\ orders[last.oid].status = "Confirmed"
  /\ orders[last.oid].txn = GatewayRef(last.oid)
  /\ cart[orders[last.oid].user] # EmptyCart
  /\ \A d \in WebhookIds : wh[d].pc = "idle"

\* C4: a signed payment.captured or payment.failed event received for an
\* order that is 'Confirmed' or 'Payment Failed' changes no order and no
\* stock, and starts nothing that would.
C4_TerminalAbsorbing ==
  [][WebhookStep => \A d \in WebhookIds, o \in Placed :
       (/\ FreeWebhook(d)
        /\ config.keySecret # None
        /\ orders[o].status \in {"Confirmed", "Payment Failed"})
         => \A b \in PaymentEvents :
              (b.oid = o /\ WebhookReceive(d, b, Signature(b)))
                => (orders' = orders /\ stock' = stock /\ wh' = wh)]_vars

\* C4 witness: a payment.failed event was turned away from a confirmed order.
C4_Witness ==
  /\ last.out = "failed_noop"
  /\ last.oid \in 1..Len(orders)
  /\ orders[last.oid].status = "Confirmed"

\* C5: no step of an online checkout that ends without a payment intent
\* changes an order, an order item, a stock or a cart item.
C5_RollbackOnIntentFailure ==
  [][\A c \in CheckoutIds :
       (/\ ck'[c] # ck[c]
        /\ (IF ck[c].pc = "idle" THEN ck'[c].mode ELSE ck[c].mode) \in OnlineModes
        /\ last'.out # "payment_initiated")
         => (orders' = orders /\ stock' = stock /\ cart' = cart)]_vars

\* C5 witness: the gateway call raised; nothing was ordered or reserved and
\* the cart is there.
C5_Witness ==
  /\ last.out = "gateway_error"
  /\ orders = <<>>
  /\ \A p \in Products : stock[p] = MaxStock
  /\ \E u \in Users : cart[u] # EmptyCart

\* C6: a delivery without a signature header, or with a header that is not
\* the HMAC of its body under the secret, is answered 401 or 400 and changes
\* no order, no stock and no cart item, and starts nothing that would.
C6_FailsClosed ==
  [][WebhookStep => \A d \in WebhookIds : FreeWebhook(d) => \A x \in Forged :
       (/\ x[2] = NoSignature \/ config.keySecret # None
        /\ WebhookReceive(d, x[1], x[2]))
         => (/\ orders' = orders
             /\ stock' = stock
             /\ cart' = cart
             /\ wh' = wh
             /\ last'.resp \in {400, 401})]_vars

\* C6 witness: a forged delivery naming an order that awaits payment was
\* answered 400 and the order still awaits payment.
C6_Witness ==
  /\ last.out = "mismatch"
  /\ \E o \in 1..Len(orders) : orders[o].status = "Payment Initiated"
  /\ \A d \in WebhookIds : wh[d].pc = "idle"

\* C7: a delivery that applies payment.failed sets the order to 'Payment
\* Failed' and gives the quantity of every order item back to the stock.
C7_FailedRestoresStock ==
  [][\A d \in WebhookIds :
       (wh[d].pc = "apply" /\ wh[d].type = "payment.failed" /\ wh'[d].pc = "idle")
         => (/\ orders'[wh[d].oid].status = "Payment Failed"
             /\ stock' = Restored(wh[d].oid))]_vars

\* C8: a cash-on-delivery checkout that succeeds persists an order with
\* status 'Confirmed', lowers the stock of each ordered product by the
\* quantity ordered and leaves the user's cart empty, in one step.
C8_CashOnDelivery ==
  [][\A c \in CheckoutIds :
       (ck[c].pc = "checked" /\ ck[c].mode = "COD" /\ ck'[c].pc = "idle")
         => (/\ Len(orders') = Len(orders) + 1
             /\ orders'[Len(orders')].status = "Confirmed"
             /\ \A p \in Products : stock'[p] = stock[p] - Units(ck[c].qty, p)
             /\ cart'[ck[c].user] = EmptyCart)]_vars

\* An online checkout that got the reference: the order is 'Payment
\* Initiated' with that reference and the cart is kept.
OnlinePlaced ==
  last'.out = "payment_initiated"
    => (/\ Len(orders') = Len(orders) + 1
        /\ orders'[Len(orders')].status = "Payment Initiated"
        /\ orders'[Len(orders')].txn = GatewayRef(Len(orders'))
        /\ cart' = cart)

\* A delivery that applies payment.captured writes 'Confirmed'.
CapturedConfirms ==
  \A d \in WebhookIds :
    (wh[d].pc = "apply" /\ wh[d].type = "payment.captured" /\ wh'[d] # wh[d])
      => orders'[wh[d].oid].status = "Confirmed"

\* C9 as claimed: ... and every signed payment.captured event with the
\* order's id and reference, received while the order is 'Payment
\* Initiated', is applied: the order becomes 'Confirmed' and its owner's
\* cart is cleared.
C9_AnyCapturedEvent ==
  [][/\ OnlinePlaced
     /\ CapturedConfirms
     /\ \A d \in WebhookIds, o \in Placed, u \in {NoId} \cup Users :
          LET b == Event("payment.captured", o, orders[o].txn, u) IN
          (/\ FreeWebhook(d)
           /\ config.keySecret # None
           /\ orders[o].mode \in OnlineModes
           /\ Transitionable(o, b.ref)
           /\ WebhookReceive(d, b, Signature(b)))
            => wh'[d].pc = "apply"
     /\ \A d \in WebhookIds :
          (wh[d].pc = "clear" /\ wh'[d] # wh[d])
            => cart'[orders[wh[d].oid].user] = EmptyCart]_vars

\* C9: an online checkout that got the reference R leaves the order
\* 'Payment Initiated' with transaction_id R and keeps the cart; every
\* signed payment.captured event with the order's id, the reference R and
\* the owner's user id in its notes, received while the order is 'Payment
\* Initiated', is applied: the order becomes 'Confirmed' and the owner's
\* cart is cleared.
C9_Lifecycle ==
  [][/\ OnlinePlaced
     /\ CapturedConfirms
     /\ \A d \in WebhookIds, o \in Placed :
          LET b == Event("payment.captured", o, orders[o].txn, orders[o].user) IN
          (/\ FreeWebhook(d)
           /\ config.keySecret # None
           /\ orders[o].mode \in OnlineModes
           /\ Transitionable(o, b.ref)
           /\ WebhookReceive(d, b, Signature(b)))
            => wh'[d] = [pc |-> "apply", type |-> "payment.captured",
                         oid |-> o, uid |-> orders[o].user]
     /\ \A d \in WebhookIds :
          (wh[d].pc = "clear" /\ wh'[d] # wh[d]
             /\ wh[d].uid = orders[wh[d].oid].user)
            => (cart'[orders[wh[d].oid].user] = EmptyCart /\ last'.resp = 200)]_vars

\* C9 witness: the order placed online was confirmed by the event and its
\* owner's cart is empty.
C9_Witness ==
  /\ last.out = "captured_applied"
  /\ orders[last.oid].status = "Confirmed"
  /\ orders[last.oid].txn = GatewayRef(last.oid)
  /\ orders[last.oid].mode \in OnlineModes
  /\ cart[orders[last.oid].user] = EmptyCart

\* C10: the step that writes the status of an order also applies the side
\* effect: with 'Confirmed' the cart named by the event is cleared, with
\* 'Payment Failed' the stock of the order's items is given back.
C10_AtomicSideEffects ==
  [][\A d \in WebhookIds :
       (wh[d].pc = "apply" /\ wh'[d] # wh[d])
         => IF wh[d].type = "payment.captured"
            THEN cart'[wh[d].uid] = EmptyCart /\ wh'[d].pc = "idle"
            ELSE stock' = Restored(wh[d].oid)]_vars

\* The payment events that name order o by its id or by its reference but
\* not by both.
Substituted(o) ==
  {Event(t, o, r, u) : t \in {"payment.captured", "payment.failed"},
                       r \in Refs \ {orders[o].txn}, u \in {NoId} \cup Users}
    \cup {Event(t, i, orders[o].txn, u) :
             t \in {"payment.captured", "payment.failed"},
             i \in OrderIds \ {o}, u \in {NoId} \cup Users}

\* C11: a signed payment.captured or payment.failed event whose order id is
\* that of an order while its reference is not that order's transaction_id,
\* or whose reference is that of an order while its order id is another,
\* changes no order, no stock and no cart item and starts nothing that
\* would; and the status of an order is written only by a delivery that was
\* received with that order's id.
C11_ReferenceGuard ==
  [][/\ WebhookStep =>
          \A d \in WebhookIds, o \in Placed :
            (FreeWebhook(d) /\ config.keySecret # None)
              => \A b \in Substituted(o) :
                   WebhookReceive(d, b, Signature(b))
                     => (/\ orders' = orders
                         /\ stock' = stock
                         /\ cart' = cart
                         /\ wh' = wh)
     /\ \A o \in Placed :
          orders'[o] # orders[o]
            => \E d \in WebhookIds : wh[d].pc = "apply" /\ wh[d].oid = o]_vars

\* C11 witness: an event with the id of an order that awaits payment and
\* another reference was answered, and the order still awaits payment.
C11_Witness ==
  /\ last.out \in {"captured_noop", "failed_noop"}
  /\ last.oid \in Placed
  /\ orders[last.oid].status = "Payment Initiated"
  /\ \A d \in WebhookIds : wh[d].pc = "idle"
\* C12: the step of a payment.captured delivery that clears the cart deletes
\* only cart items of the order's owner for products of that order: every
\* cart item of another user, and every cart item of the owner for a product
\* the order does not contain, is there afterwards with its quantity.
C12_ClearsOnlyPurchase ==
  [][\A d \in WebhookIds :
       (wh[d].pc = "clear" /\ wh'[d] # wh[d])
         => \A u \in Users : \A r \in DOMAIN cart[u] :
              (u # orders[wh[d].oid].user \/ Units(orders[wh[d].oid].items, Prod(r)) = 0)
                => (r \in DOMAIN cart'[u] /\ cart'[u][r] = cart[u][r])]_vars
\* C13: when the stock check of a checkout meets a cart item whose quantity
\* exceeds the stock of its product, the checkout ends there with the
\* insufficient-stock answer: no order, no order item and no stock decrement
\* is persisted and the cart is as it was.
C13_InsufficientStock ==
  [][\A c \in CheckoutIds :
       (/\ ck[c].pc = "begun"
        /\ ck'[c] # ck[c]
        /\ \E r \in ck[c].items \cap DOMAIN cart[ck[c].user] :
             cart[ck[c].user][r] > stock[Prod(r)])
         => (/\ last' = Answer("checkout", "insufficient", 302, NoId)
             /\ ck'[c] = IdleCheckout
             /\ orders' = orders
             /\ stock' = stock
             /\ cart' = cart)]_vars

\* C13 witness: a checkout was refused for insufficient stock after an order
\* had taken the stock, and the refused cart still holds more than is left.
C13_Witness ==
  /\ last.out = "insufficient"
  /\ orders # <<>>
  /\ \E u \in Users : \E r \in DOMAIN cart[u] : cart[u][r] > stock[Prod(r)]
\* C14: in every reachable state an order has a transaction_id exactly if
\* its status is 'Payment Initiated' or one of the statuses that follow it.
C14_TransactionIdIffInitiated ==
  \A o \in Placed :
    orders[o].txn # NoRef
      <=> orders[o].status \in {"Payment Initiated", "Confirmed", "Payment Failed"}

\* C14 witness: an order that went on from 'Payment Initiated' and has its
\* transaction_id.
C14_Witness ==
  \E o \in Placed :
    /\ orders[o].status \in {"Confirmed", "Payment Failed"}
    /\ orders[o].txn = GatewayRef(o)
\* C15: the stock of every product is a non-negative integer in every
\* reachable state.
C15_StockNonNegative == \A p \in Products : stock[p] \in Nat
\* C16: in every reachable state every cart item has a quantity of at least
\* 1 and at most the stock of its product.
C16_CartWithinStock ==
  \A u \in Users : \A r \in DOMAIN cart[u] :
    1 <= cart[u][r] /\ cart[u][r] <= stock[Prod(r)]
\* C17: stock is reserved when an order is created and only then: the step
\* that persists a new order lowers the stock of every product by exactly
\* the quantity ordered, no other step changes a stock, and no step of a
\* payment.captured delivery does.
C17_ReservedAtCreationOnly ==
  [][/\ Len(orders') = Len(orders) + 1
          => \A p \in Products :
               stock'[p] = stock[p] - Units(orders'[Len(orders')].items, p)
     /\ Len(orders') = Len(orders) => stock' = stock
     /\ \A d \in WebhookIds :
          (wh'[d] # wh[d] /\ "payment.captured" \in {wh[d].type, wh'[d].type})
            => stock' = stock]_vars
\* C18: a signed delivery whose event type is neither payment.captured nor
\* payment.failed is answered 200 and changes no order, no stock and no
\* cart item, and starts nothing that would.
C18_UnhandledAcknowledged ==
  [][WebhookStep => \A d \in WebhookIds :
       (FreeWebhook(d) /\ config.keySecret # None)
         => \A b \in OrderEvents({"order.paid"}) :
              WebhookReceive(d, b, Signature(b))
                => (/\ orders' = orders
                    /\ stock' = stock
                    /\ cart' = cart
                    /\ wh' = wh
                    /\ last'.resp = 200)]_vars

\* C18 witness: an unhandled event was answered 200 while an order awaits
\* payment and its owner has a cart.
C18_Witness ==
  /\ last = Answer("webhook", "unhandled", 200, NoId)
  /\ \E o \in Placed : /\ orders[o].status = "Payment Initiated"
                        /\ cart[orders[o].user] # EmptyCart
\* C19: a signed payment.captured or payment.failed event whose notes lack
\* the internal order id or the user id is answered 200 and is not applied:
\* no order, no stock and no cart item changes and nothing is started that
\* would change one.
C19_IncompleteMetadata ==
  [][WebhookStep => \A d \in WebhookIds :
       (FreeWebhook(d) /\ config.keySecret # None)
         => \A b \in PaymentEvents :
              (/\ b.oid = NoId \/ b.uid = NoId
               /\ WebhookReceive(d, b, Signature(b)))
                => (/\ orders' = orders
                    /\ stock' = stock
                    /\ cart' = cart
                    /\ wh' = wh
                    /\ last'.resp = 200)]_vars
\* The status code the response-code rule gives delivery x: 401 without a
\* signature header, 500 without a configured secret, 400 for a signature
\* that does not match or a body that is not a well-formed event, 200
\* otherwise.
RuleCode(x) ==
  IF x[2] = NoSignature THEN 401
  ELSE IF config.keySecret = None THEN 500
  ELSE IF x[2] # Signature(x[1]) THEN 400
  ELSE IF x[1].shape # "json" THEN 400
  ELSE 200

\* C20: every delivery is answered with the code of the rule: an answer on
\* receipt is the rule's code for the delivery received, and a delivery
\* that was applied is answered 200.
C20_ResponseCodes ==
  [][/\ (last'.op = "webhook" /\ wh' = wh)
          => \A d \in WebhookIds : FreeWebhook(d) => \A x \in Deliveries :
               WebhookReceive(d, x[1], x[2]) => last'.resp = RuleCode(x)
     /\ (last'.op = "webhook" /\ wh' # wh) => last'.resp = 200]_vars


\* C21: once an order is persisted, the product, the quantity and the unit
\* price of each of its order items never change: no step of any request
\* (catalog edits of price or stock, cart changes, status changes by the
\* gateway's events, further checkouts) alters the items of a persisted
\* order or removes the order.
C21_OrderItemsImmutable ==
  [][\A o \in DOMAIN orders :
       /\ o \in DOMAIN orders'
       /\ orders'[o].items = orders[o].items
       /\ orders'[o].prices = orders[o].prices]_vars

\* An order whose status the gateway has changed, whose item price is no
\* longer the catalog price and whose user's cart has been emptied.
C21_Witness ==
  \E o \in DOMAIN orders :
    /\ orders[o].status \in {"Confirmed", "Payment Failed"}
    /\ DOMAIN orders[o].prices # {}
    /\ \A r \in DOMAIN orders[o].prices :
         /\ orders[o].prices[r] # price[Prod(r)]
         /\ orders[o].items[r] > stock[Prod(r)]
    /\ cart[orders[o].user] = EmptyCart


\* C22: for every persisted order, total_amount is the sum over its order
\* items of item price times quantity, and the amount an online order's
\* gateway order was created with is that total in hundredths.
C22_TotalMatchesItems ==
  \A o \in DOMAIN orders :
    /\ orders[o].total =
         SumPrices(orders[o].items, orders[o].prices, DOMAIN orders[o].items)
    /\ orders[o].txn # NoRef => orders[o].amount = orders[o].total


\* C23: a checkout submission that creates no order (insufficient stock,
\* gateway failure, unconfigured gateway) leaves the persisted data as they
\* were, the user's stored address and contact included.  The users start
\* without a stored address and only a checkout writes it, so when such a
\* submission ends and its user has no order, the user has no stored
\* address, and the step itself changes no stock, cart or order.
C23_FailedCheckoutChangesNothing ==
  [][\A c \in CheckoutIds :
       (/\ ck[c].pc # "idle"
        /\ ck'[c].pc = "idle"
        /\ last'.out \in {"insufficient", "gateway_error", "not_configured"})
       => /\ UNCHANGED <<stock, cart, orders>>
          /\ (\A o \in DOMAIN orders : orders[o].user # ck[c].user)
               => profile'[ck[c].user] = None]_vars


\* C24: a retained cart is never reserved twice: no user has two orders in
\* 'Payment Initiated' made of the same cart rows with the same quantities.
C24_RetainedCartReservedOnce ==
  \A o1, o2 \in DOMAIN orders :
    (/\ o1 # o2
     /\ orders[o1].user = orders[o2].user
     /\ orders[o1].status = "Payment Initiated"
     /\ orders[o2].status = "Payment Initiated")
    => orders[o1].items # orders[o2].items


\* C25: every persisted order has a supported payment mode, one of the two
\* online modes or cash on delivery; the step that ends a checkout submitted
\* with any other mode persists no order and changes no stock.
C25_SupportedModesOnly ==
  [][/\ \A o \in DOMAIN orders' : orders'[o].mode \in OnlineModes \cup {"COD"}
     /\ \A c \in CheckoutIds :
          (/\ ck[c].pc = "checked"
           /\ ck'[c].pc = "idle"
           /\ ck[c].mode \notin OnlineModes \cup {"COD"})
          => UNCHANGED <<orders, stock>>]_vars

====
